---- MODULE Spec2Model ----
(***************************************************************************)
(* yawbdl.py: the run of the downloader as a state machine.                *)
(*                                                                         *)
(* Strings are sequences of characters.  A character is a one-letter       *)
(* string or an opaque run of letters ("index", "snapshots"); the          *)
(* characters the code looks at ("/", "?", ".", the digits) are always     *)
(* single.  A URL is kept as urlsplit() returns it: [pre, path, query],    *)
(* pre being everything before the path (scheme, host, port).              *)
(*                                                                         *)
(* The file system is a tree below "/" (the empty path): dirs is the set   *)
(* of directories, files maps each regular file to its content.  Paths in  *)
(* dirs and files are canonical (sequences of names, no ".."); the paths   *)
(* the program builds are strings, resolved name by name as POSIX does.    *)
(* The platform modelled is POSIX (os.name /= "nt", path.sep = "/").       *)
(***************************************************************************)
EXTENDS Integers, Sequences, FiniteSets, TLC

\* ---------------------------------------------------------------- bounds
MaxRetries == 1
MaxRecords == 2
MaxIndexRows == 3
MaxRetryOption == 3

\* ------------------------------------------------------------- constants
TsWidth == 14
HTTP_OK == 200

\* --------------------------------------------------------------- strings
SEP == "/"
DOT == "."
DOTDOT == <<".", ".">>

Digit == [c \in {"0", "1", "2", "3", "4", "5", "6", "7", "8", "9"} |->
            CASE c = "0" -> 0 [] c = "1" -> 1 [] c = "2" -> 2 [] c = "3" -> 3
              [] c = "4" -> 4 [] c = "5" -> 5 [] c = "6" -> 6 [] c = "7" -> 7
              [] c = "8" -> 8 [] c = "9" -> 9]

\* s <= t for strings of digits, as Python compares str: character by
\* character, a proper prefix being the smaller.
RECURSIVE StrLeq(_, _)
StrLeq(s, t) ==
    IF s = <<>> THEN TRUE
    ELSE IF t = <<>> THEN FALSE
    ELSE IF Head(s) = Head(t) THEN StrLeq(Tail(s), Tail(t))
    ELSE Digit[Head(s)] < Digit[Head(t)]

\* str.ljust(width, "0")
RECURSIVE Ljust(_, _)
Ljust(s, width) == IF Len(s) >= width THEN s ELSE Ljust(Append(s, "0"), width)

\* str.lstrip("/")
RECURSIVE Lstrip(_)
Lstrip(s) == IF s /= <<>> /\ Head(s) = SEP THEN Lstrip(Tail(s)) ELSE s

\* str.rstrip("/")
RECURSIVE Rstrip(_)
Rstrip(s) ==
    IF s /= <<>> /\ s[Len(s)] = SEP THEN Rstrip(SubSeq(s, 1, Len(s) - 1)) ELSE s

\* The greatest index of character c in s, 0 when there is none (str.rfind + 1).
Rfind(s, c) ==
    LET at == {i \in 1..Len(s) : s[i] = c}
    IN  IF at = {} THEN 0 ELSE CHOOSE i \in at : \A j \in at : j <= i

\* The names of a path string: str.split("/") without the empty names.
\* names: the names before position i; name: the one being read, if any.
RECURSIVE SplitFrom(_, _, _, _)
SplitFrom(p, i, names, name) ==
    IF i > Len(p) THEN (IF name = <<>> THEN names ELSE Append(names, name))
    ELSE IF p[i] /= SEP THEN SplitFrom(p, i + 1, names, Append(name, p[i]))
    ELSE IF name = <<>> THEN SplitFrom(p, i + 1, names, name)
    ELSE SplitFrom(p, i + 1, Append(names, name), <<>>)

SplitNames(p) == SplitFrom(p, 1, <<>>, <<>>)

\* posixpath.join(a, b)
PathJoin(a, b) ==
    IF b /= <<>> /\ Head(b) = SEP THEN b
    ELSE IF a = <<>> \/ a[Len(a)] = SEP THEN a \o b
    ELSE a \o <<SEP>> \o b

\* posixpath.split(p)[0]: everything before the last "/", its trailing
\* slashes stripped unless it is all slashes.
PathDirname(p) ==
    LET i == Rfind(p, SEP)
        head == SubSeq(p, 1, i)
    IN  IF Rstrip(head) = <<>> THEN head ELSE Rstrip(head)

\* posixpath.splitext(p)[1]: from the last dot of the last name on, unless
\* only dots precede it in that name.
RECURSIVE AllDots(_)
AllDots(s) == s = <<>> \/ (Head(s) = DOT /\ AllDots(Tail(s)))

PathExt(p) ==
    LET sepIndex == Rfind(p, SEP)
        dotIndex == Rfind(p, DOT)
    IN  IF dotIndex > sepIndex /\ ~AllDots(SubSeq(p, sepIndex + 1, dotIndex))
        THEN SubSeq(p, dotIndex, Len(p))
        ELSE <<>>

\* ------------------------------------------------------------ path rules
\* url_to_path on a POSIX system: each character of \x00-\x1F and \x80-\x9F
\* becomes "%" and its two hexadecimal digits.  "TAB" is the character \x09.
Escape == [c \in {"TAB"} |-> <<"%", "0", "9">>]
RECURSIVE url_to_path(_)
url_to_path(url) ==
    IF url = <<>> THEN <<>>
    ELSE (IF Head(url) \in DOMAIN Escape THEN Escape[Head(url)] ELSE <<Head(url)>>)
         \o url_to_path(Tail(url))

\* get_file_path(original_url): the path relative to <dest>/<timestamp>/
get_file_path(original_url) ==
    LET stripped == Lstrip(original_url.path)
        withQuery == IF original_url.query /= <<>>
                     THEN stripped \o <<"?">> \o original_url.query
                     ELSE stripped
        fpath == url_to_path(withQuery)
    IN  IF fpath = <<>> \/ fpath[Len(fpath)] = SEP
        THEN PathJoin(fpath, <<"index", DOT, "html">>)
        ELSE fpath

\* hashlib.sha1(original_url).hexdigest(): one opaque run of characters per
\* URL, different for different URLs and never a name a URL path holds.
Sha1(original_url) == ToString(original_url)

\* The mutation of HashedFilename: the extension of the URL is not kept.
HashedFilenameHtml(original_url) == <<Sha1(original_url)>> \o <<DOT, "html">>

\* get_hashed_file_path(original_url, timestamp_dir) = (hash_fpath, hashed_filename)
HashedFilename(original_url) ==
    LET file_ext == IF PathExt(original_url.path) /= <<>>
                    THEN PathExt(original_url.path)
                    ELSE <<DOT, "html">>
    IN  <<Sha1(original_url)>> \o file_ext

get_hashed_file_path(original_url, timestamp_dir) ==
    PathJoin(timestamp_dir, HashedFilename(original_url))

\* ------------------------------------------------------------------ data
NoBytes == <<>>
\* File contents: the JSON text of an index (rows), or the bytes of a body.
\* The mutation of Json for C11: the header row is dropped before the dump.
JsonWithoutHeader(rows) ==
    [kind |-> "json", rows |-> IF rows = <<>> THEN rows ELSE Tail(rows),
     data |-> NoBytes]
Json(rows) == [kind |-> "json", rows |-> rows, data |-> NoBytes]
Bytes(body) == [kind |-> "bytes", rows |-> <<>>, data |-> body]
LogText == [kind |-> "log", rows |-> <<>>, data |-> NoBytes]

T1 == <<"2", "0", "2", "0", "0", "1", "0", "1", "0", "0", "0", "0", "0", "0">>
T2 == <<"2", "0", "2", "0", "0", "1", "0", "2", "0", "0", "0", "0", "0", "0">>
T1Noon == <<"2", "0", "2", "0", "0", "1", "0", "1", "1", "2", "0", "0", "0", "0">>
Timestamps == {T1, T2}

Url(pre, urlpath, query) == [pre |-> pre, path |-> urlpath, query |-> query]
UrlA == Url("http://x.test", <<"/", "a">>, <<>>)
UrlAB == Url("http://x.test", <<"/", "a", "/", "b">>, <<>>)
UrlUp == Url("http://x.test", <<"/", ".", ".", "/", "snapshots", ".", "json">>, <<>>)
Urls == {UrlA, UrlAB, UrlUp}

\* The rows of the index: the header row first, then [timestamp, original].
Header == <<(<<"timestamp">>), Url("", <<"original">>, <<>>)>>
Snapshots == {<<T1, UrlA>>, <<T1, UrlAB>>, <<T1, UrlUp>>, <<T2, UrlA>>}
RECURSIVE SeqsUpTo(_, _)
SeqsUpTo(S, n) ==
    IF n = 0 THEN {<<>>}
    ELSE LET shorter == SeqsUpTo(S, n - 1)
         IN  shorter \cup {Append(q, x) : q \in {r \in shorter : Len(r) = n - 1}, x \in S}
\* What the index query may answer: no row at all, or the header and rows.
RawIndexes == {<<>>} \cup {<<Header>> \o q : q \in SeqsUpTo(Snapshots, MaxRecords)}

\* Indexes for the study of the index load: three captures of one URL, one of
\* them later the same day as the first, and a capture of a second URL; the
\* archive lists them by URL, so not in the order of their timestamps.
IndexSnapshots == {<<T1, UrlA>>, <<T1Noon, UrlA>>, <<T2, UrlA>>, <<T2, UrlAB>>}
IndexInputs ==
    {<<>>} \cup {<<Header>> \o q : q \in SeqsUpTo(IndexSnapshots, MaxIndexRows)}

\* URLs for the study of the path rules: the page /a under another scheme
\* and with a doubled slash, a directory with and without a query, the bare
\* host with and without a query, and a path that climbs out of its
\* timestamp directory into that of T1.
UrlAHttps == Url("https://x.test", <<"/", "a">>, <<>>)
UrlSlashA == Url("http://x.test", <<"/", "/", "a">>, <<>>)
UrlDir == Url("http://x.test", <<"/", "d", "/">>, <<>>)
UrlDirQuery == Url("http://x.test", <<"/", "d", "/">>, <<"q">>)
UrlHost == Url("http://x.test", <<>>, <<>>)
UrlHostQuery == Url("http://x.test", <<>>, <<"q">>)
UrlBack == Url("http://x.test", <<"/", ".", ".", "/">> \o T1 \o <<"/", "a">>, <<>>)
PathSnapshots ==
    {<<T1, UrlA>>, <<T1, UrlAHttps>>, <<T1, UrlSlashA>>, <<T1, UrlDir>>,
     <<T1, UrlDirQuery>>, <<T1, UrlHost>>, <<T1, UrlHostQuery>>, <<T2, UrlBack>>}
PathInputs == {<<Header>> \o q : q \in SeqsUpTo(PathSnapshots, MaxRecords)}

Statuses == {HTTP_OK, 404}
\* resp.content of a capture: nothing, or the bytes the archive holds for it,
\* which are not those of any other capture.
Bodies(snap) == {NoBytes, <<snap>>}

\* The destination directory and what the start of the program leaves in it
\* (os.makedirs(DST_DIR), the log file).
DST_DIR == <<"dest">>
LOG_FILE == PathJoin(DST_DIR, <<"yawbdl", DOT, "log">>)
snapshots_path == PathJoin(DST_DIR, <<"snapshots", DOT, "json">>)

\* The names of a path string, as the system reads them.
Names(p) == SplitNames(p)

\* ------------------------------------------------------------ file system
\* A file system is [dirs: set of canonical paths, files: canonical path ->
\* content].  "/" (<<>>) is always a directory.
IsDirAt(fs, c) == c = <<>> \/ c \in fs.dirs
IsFileAt(fs, c) == c \in DOMAIN fs.files
ExistsAt(fs, c) == IsDirAt(fs, c) \/ IsFileAt(fs, c)
Parent(c) == IF c = <<>> THEN <<>> ELSE SubSeq(c, 1, Len(c) - 1)

\* POSIX path resolution from directory cur: every name but the last must
\* lead to a directory; ".." is the parent.  NoEntry when it fails.
NoEntry == <<(<<"ENOENT">>), (<<"ENOENT">>)>>
RECURSIVE ResolveFrom(_, _, _)
ResolveFrom(fs, cur, names) ==
    IF names = <<>> THEN cur
    ELSE IF ~IsDirAt(fs, cur) THEN NoEntry
    ELSE IF Head(names) = DOTDOT THEN ResolveFrom(fs, Parent(cur), Tail(names))
    ELSE ResolveFrom(fs, Append(cur, Head(names)), Tail(names))

Resolve(fs, p) == ResolveFrom(fs, <<>>, Names(p))

\* os.path.isfile, os.path.isdir, os.path.exists
isfile(fs, p) == IsFileAt(fs, Resolve(fs, p))
isdir(fs, p) == Resolve(fs, p) /= NoEntry /\ IsDirAt(fs, Resolve(fs, p))
exists(fs, p) == isfile(fs, p) \/ isdir(fs, p)

\* os.makedirs(name, exist_ok=True) from "/": the names that exist are
\* walked, the missing ones are created one by one.  It raises OSError when
\* a name is a regular file, and when the system refuses a mkdir: budget is
\* the number of directories the system lets this call create.
RECURSIVE MakeDirsFrom(_, _, _, _)
MakeDirsFrom(fs, cur, names, budget) ==
    IF names = <<>> THEN [ok |-> TRUE, fs |-> fs]
    ELSE IF Head(names) = DOTDOT
    THEN MakeDirsFrom(fs, Parent(cur), Tail(names), budget)
    ELSE LET nxt == Append(cur, Head(names))
         IN  IF IsFileAt(fs, nxt) THEN [ok |-> FALSE, fs |-> fs]
             ELSE IF IsDirAt(fs, nxt)
             THEN MakeDirsFrom(fs, nxt, Tail(names), budget)
             ELSE IF budget = 0 THEN [ok |-> FALSE, fs |-> fs]
             ELSE MakeDirsFrom([fs EXCEPT !.dirs = @ \cup {nxt}], nxt,
                               Tail(names), budget - 1)

makedirs(fs, name, budget) == MakeDirsFrom(fs, <<>>, Names(name), budget)

\* f with key k set to v, k being in its domain or not.
Put(f, k, v) == [x \in DOMAIN f \cup {k} |-> IF x = k THEN v ELSE f[x]]

\* The mutation of OpenWrite: the OSError of file.write is swallowed.
OpenWriteSwallowing(fs, p, content, fault) ==
    LET c == Resolve(fs, p)
    IN  IF c = NoEntry \/ IsDirAt(fs, c) \/ fault = "open"
        THEN [ok |-> FALSE, fs |-> fs, opened |-> {}]
        ELSE [ok |-> TRUE, opened |-> {c},
              fs |-> [fs EXCEPT !.files =
                        Put(@, c, IF fault = "write"
                                  THEN [content EXCEPT !.data = NoBytes]
                                  ELSE content)]]

\* with open(p, "wb") as file: file.write(content).  fault is what the
\* system does: "none", "open" (open raises OSError, nothing is created) or
\* "write" (the file is created or truncated, then write raises OSError).
\* open raises by itself when p is a directory or its directory is missing.
\* opened: the files it opened for writing (created or truncated).
OpenWrite(fs, p, content, fault) ==
    LET c == Resolve(fs, p)
    IN  IF c = NoEntry \/ IsDirAt(fs, c) \/ fault = "open"
        THEN [ok |-> FALSE, fs |-> fs, opened |-> {}]
        ELSE IF fault = "write"
        THEN [ok |-> FALSE, opened |-> {c},
              fs |-> [fs EXCEPT !.files = Put(@, c, [content EXCEPT !.data = NoBytes])]]
        ELSE [ok |-> TRUE, opened |-> {c},
              fs |-> [fs EXCEPT !.files = Put(@, c, content)]]

\* posixpath.normpath of an absolute path, as names
RECURSIVE NormNames(_, _)
NormNames(names, acc) ==
    IF names = <<>> THEN acc
    ELSE IF Head(names) = DOTDOT
    THEN NormNames(Tail(names), Parent(acc))
    ELSE NormNames(Tail(names), Append(acc, Head(names)))

RECURSIVE CommonLen(_, _)
CommonLen(a, b) ==
    IF a = <<>> \/ b = <<>> \/ Head(a) /= Head(b) THEN 0
    ELSE 1 + CommonLen(Tail(a), Tail(b))

\* posixpath.relpath(p, start), as names (<<>> is ".")
relpath(p, start) ==
    LET path_list == NormNames(Names(p), <<>>)
        start_list == NormNames(Names(start), <<>>)
        i == CommonLen(start_list, path_list)
    IN  [k \in 1..(Len(start_list) - i) |-> DOTDOT]
        \o SubSeq(path_list, i + 1, Len(path_list))

IsPrefix(a, b) == Len(a) <= Len(b) /\ SubSeq(b, 1, Len(a)) = a

\* cleanup_empty_directory(dirname, timestamp_dir): the file system after it
cleanup_empty_directory(fs, dirname, timestamp_dir) ==
    LET rel_path == relpath(dirname, timestamp_dir)
    IN  IF rel_path = <<>> THEN fs
        ELSE LET first_subdir == rel_path[1]
                 cleanup_path == PathJoin(timestamp_dir, first_subdir)
                 c == Resolve(fs, cleanup_path)
                 is_empty == \A f \in DOMAIN fs.files : ~IsPrefix(c, f)
             IN  IF ~exists(fs, cleanup_path) THEN fs
                 \* os.walk of a regular file yields nothing and
                 \* shutil.rmtree of it raises NotADirectoryError: ignored
                 ELSE IF IsFileAt(fs, c) THEN fs
                 ELSE IF is_empty
                 THEN [fs EXCEPT !.dirs = {d \in @ : ~IsPrefix(c, d)}]
                 ELSE fs

EmptyFs == [dirs |-> {}, files |-> <<>>]
StartFs(fs) ==
    LET made == makedirs(fs, DST_DIR, 1).fs
    IN  [made EXCEPT !.files = Put(@, Resolve(made, LOG_FILE), LogText)]

\* ----------------------------------------------------------------- state
VARIABLES
    args,            \* the options: RETRIES, NO_FAIL, DRY_RUN, DELAY, ...
    cdx,             \* the rows the archive's index holds for the domain
    fs,              \* the file system
    pc,              \* where the process is
    snap_list,       \* the records get_snapshot_list returned
    current,         \* download_files: the 1-based position of the record
    retry_count,     \* retry_download.wrapper: its local counter
    exit_code,       \* the exit status, once pc = "exit"
    attempts,        \* history: calls of func in the wrapper invocation
    slept,           \* history: the time.sleep calls of the invocation
    last,            \* history: what download_file did with the last record
    index_requests,  \* history: index requests issued in this run
    index_code,      \* history: the status code of the index response, 0: none
    cache_opened,    \* history: times snapshots.json was opened for writing
    cache_at_start,  \* history: snapshots.json was a file when the run began
    saved_now,       \* history: records whose content this run wrote
    saved_before,    \* history: records whose content earlier runs wrote
    status_lines,    \* history: status lines logged for the record in hand
    loaded,          \* history: where this run's index rows came from
    no_snapshots,    \* history: "Sorry, no snapshots found!" was logged
    fresh_list       \* history: the list of the last run that fetched the index

vars == <<args, cdx, fs, pc, snap_list, current, retry_count, exit_code, attempts,
          slept, last, index_requests, index_code, cache_opened, cache_at_start,
          saved_now, saved_before, status_lines, loaded, no_snapshots, fresh_list>>

RETRIES == args.RETRIES
NO_FAIL == args.NO_FAIL
DRY_RUN == args.DRY_RUN
DELAY == args.DELAY
skip_timestamps == args.skip_timestamps

\* ------------------------------------------------------ get_snapshot_list
\* snap_list.sort(key=get_snapshot_timestamp): a stable sort
RECURSIVE InsertByTimestamp(_, _)
InsertByTimestamp(sorted, snap) ==
    IF sorted = <<>> THEN <<snap>>
    ELSE IF StrLeq(sorted[Len(sorted)][1], snap[1]) THEN Append(sorted, snap)
    ELSE Append(InsertByTimestamp(SubSeq(sorted, 1, Len(sorted) - 1), snap),
                sorted[Len(sorted)])

\* The mutation of SortByTimestamp for C19: the list is left as it comes.
Unsorted(list) == list

RECURSIVE SortByTimestamp(_)
SortByTimestamp(list) ==
    IF list = <<>> THEN <<>>
    ELSE InsertByTimestamp(SortByTimestamp(SubSeq(list, 1, Len(list) - 1)),
                           list[Len(list)])

\* The mutation of UrlToLatest for C17: the first snap of a URL stays.
RECURSIVE UrlToFirst(_, _)
UrlToFirst(list, dict) ==
    IF list = <<>> THEN dict
    ELSE LET snap == Head(list)
         IN  UrlToFirst(Tail(list),
                 IF \E j \in 1..Len(dict) : dict[j][2] = snap[2] THEN dict
                 ELSE Append(dict, snap))

\* url_to_latest[url] = snap, for each snap in turn: a dict keeps the place
\* of a key's first insertion and the value of its last.
RECURSIVE UrlToLatest(_, _)
UrlToLatest(list, dict) ==
    IF list = <<>> THEN dict
    ELSE LET snap == Head(list)
             at == {j \in 1..Len(dict) : dict[j][2] = snap[2]}
         IN  UrlToLatest(Tail(list),
                 IF at = {} THEN Append(dict, snap)
                 ELSE [j \in 1..Len(dict) |-> IF j \in at THEN snap ELSE dict[j]])

get_latest_snapshots(snapshot_list) ==
    SortByTimestamp(UrlToLatest(snapshot_list, <<>>))

\* The mutation of InDateRange for C18: the bounds are compared as typed.
InDateRangeUnpadded(snap, from_date, to_date) ==
    /\ (from_date = <<>> \/ StrLeq(from_date, snap[1]))
    /\ (to_date = <<>> \/ StrLeq(snap[1], to_date))

\* The filter of lines 312-318; an unsupplied bound is None (<<>> here).
InDateRange(snap, from_date, to_date) ==
    /\ (from_date = <<>> \/ StrLeq(Ljust(from_date, TsWidth), snap[1]))
    /\ (to_date = <<>> \/ StrLeq(snap[1], Ljust(to_date, TsWidth)))

\* get_snapshot_list from line 304 on: what it returns for the loaded rows
IndexOf(rows, a) ==
    LET noHeader == Tail(rows)
        filtered == IF a.from_date /= <<>> \/ a.to_date /= <<>>
                    THEN SelectSeq(noHeader,
                             LAMBDA snap : InDateRange(snap, a.from_date, a.to_date))
                    ELSE noHeader
        sorted == SortByTimestamp(filtered)
    IN  IF a.latest_only THEN get_latest_snapshots(sorted) ELSE sorted

\* ------------------------------------------------- retry_download.wrapper
InitialRetryCount == 0

\* The mutation of wrapper_except: NO_FAIL is not looked at.
wrapper_except_strict(count, has_context) ==
    IF count < RETRIES THEN [then |-> "retry", retry_count |-> count + 1]
    ELSE [then |-> "exit", retry_count |-> count]

\* The except branch of the wrapper, func having raised with the counter at
\* count: retry with the counter one higher; or return None; or sys.exit(1).
\* has_context: the wrapper has its _url_context attribute (fetch_url does,
\* download_file sets it before each call; fetch_snapshots never does).
wrapper_except(count, has_context) ==
    IF count < RETRIES THEN [then |-> "retry", retry_count |-> count + 1]
    ELSE IF has_context /\ NO_FAIL THEN [then |-> "return_none", retry_count |-> count]
    ELSE [then |-> "exit", retry_count |-> count]

\* The mutation of wrapper_log for C13: a retry is announced without a
\* status line.
wrapper_log_last_only(r, has_context) ==
    IF has_context /\ r.then /= "retry" THEN 1 ELSE 0

\* The status lines an except branch logs: one log_status (line 141, 155 or
\* 157) for a function with a URL context, a bare logger call without one.
wrapper_log(r, has_context) == IF has_context THEN 1 ELSE 0

\* The guard of the wrapper's while loop, line 127
wrapper_loops(count) == count <= RETRIES

\* The mutation of SleepBefore for C14: the wait does not grow.
SleepBeforeFlat(count) ==
    IF DELAY /= 0 /\ count > 0 THEN <<DELAY * 2>> ELSE <<>>

\* time.sleep before the call of func, line 129-130
SleepBefore(count) ==
    IF DELAY /= 0 /\ count > 0 THEN <<DELAY * 2 * count>> ELSE <<>>

\* --------------------------------------------------------------- write_file
\* The mutation of Collides: the check of line 497 is left out.
NeverCollides(f, dirname) == FALSE

\* Line 497: the directory part of the target is a regular file
Collides(f, dirname) == isfile(f, dirname)

\* What the system may do to one write_file: mkdirs is the number of
\* directories it lets os.makedirs create (Enough, more than a path of the
\* model has names: it does not fail), primary and hashed are the faults of
\* the two open/write ("none", "open" or "write", see OpenWrite).
Enough == 16
NoFault == [mkdirs |-> Enough, primary |-> "none", hashed |-> "none"]
Environments(depth) ==
    {NoFault}
    \cup [mkdirs : 0..(depth - 1), primary : {"none"}, hashed : {"none", "open"}]
    \cup [mkdirs : {Enough}, primary : {"open", "write"}, hashed : {"none", "open"}]

write_file(f, fpath, content, timestamp_dir, original_url, env) ==
    LET dirname == PathDirname(fpath)
        made == makedirs(f, dirname, env.mkdirs)
        primary == IF made.ok THEN OpenWrite(made.fs, fpath, content, env.primary)
                   ELSE [ok |-> FALSE, fs |-> made.fs, opened |-> {}]
        cleaned == cleanup_empty_directory(primary.fs, dirname, timestamp_dir)
        hash_fpath == get_hashed_file_path(original_url, timestamp_dir)
        hashed == OpenWrite(cleaned, hash_fpath, content, env.hashed)
        both == primary.opened \cup hashed.opened
    IN  IF Collides(f, dirname)
        THEN [status |-> "COLLISION", fs |-> f, opened |-> {}, raised |-> {}]
        ELSE IF primary.ok
        THEN [status |-> "OK", fs |-> primary.fs, opened |-> primary.opened,
              raised |-> {}]
        ELSE IF hashed.ok
        THEN [status |-> "OK_HASHED", fs |-> hashed.fs, opened |-> both,
              raised |-> {"primary"}]
        ELSE [status |-> "FAILED", fs |-> hashed.fs, opened |-> both,
              raised |-> {"primary", "hashed"}]

\* ------------------------------------------------------------ download_file
\* Lines 443 and 449, computed once for each snapshot of the model:
\* path.join(DST_DIR, timestamp), fpath and hash_fpath.
PathsOf ==
    [snap \in Snapshots \cup IndexSnapshots \cup PathSnapshots |->
        LET timestamp_dir == PathJoin(DST_DIR, snap[1])
        IN  [timestamp_dir |-> timestamp_dir,
             fpath |-> PathJoin(timestamp_dir, get_file_path(snap[2])),
             hash_fpath |-> get_hashed_file_path(snap[2], timestamp_dir)]]
TimestampDir(snap) == PathsOf[snap].timestamp_dir
PrimaryPath(snap) == PathsOf[snap].fpath
HashedPath(snap) == PathsOf[snap].hash_fpath

\* The mutation of SkipReason for C4: DRY_RUN is not looked at.
SkipReasonNoDryRun(f, snap) ==
    IF snap[1] \in skip_timestamps THEN "SKIP_TIMESTAMP"
    ELSE IF isfile(f, PrimaryPath(snap)) THEN "SKIP_ON_DISK"
    ELSE IF isfile(f, HashedPath(snap)) THEN "SKIP_HASHED_ON_DISK"
    ELSE "FETCH"

\* The mutation of SkipReason for C5: the hashed path is not looked at.
SkipReasonPrimaryOnly(f, snap) ==
    IF snap[1] \in skip_timestamps THEN "SKIP_TIMESTAMP"
    ELSE IF isfile(f, PrimaryPath(snap)) THEN "SKIP_ON_DISK"
    ELSE IF DRY_RUN THEN "DRY_RUN"
    ELSE "FETCH"

\* Lines 439-456: why download_file returns before any request, or "FETCH".
SkipReason(f, snap) ==
    IF snap[1] \in skip_timestamps THEN "SKIP_TIMESTAMP"
    ELSE IF isfile(f, PrimaryPath(snap)) THEN "SKIP_ON_DISK"
    ELSE IF isfile(f, HashedPath(snap)) THEN "SKIP_HASHED_ON_DISK"
    ELSE IF DRY_RUN THEN "DRY_RUN"
    ELSE "FETCH"

Skips == {"SKIP_TIMESTAMP", "SKIP_ON_DISK", "SKIP_HASHED_ON_DISK", "DRY_RUN"}

\* The mutation of status_ok: every status code is taken for 200.
any_status(status_code) == TRUE

\* Lines 288 and 470: the status code of a response is 200
status_ok(status_code) == status_code = HTTP_OK

\* The mutation of AfterResponse: an empty body is written as any other.
AfterResponseWritingEmpty(f, snap, status_code, content, env) ==
    IF ~status_ok(status_code)
    THEN [status |-> "HTTP_ERROR", fs |-> f, opened |-> {}, raised |-> {}]
    ELSE write_file(f, PrimaryPath(snap), Bytes(content), TimestampDir(snap),
                    snap[2], env)

\* Lines 469-477: download_file once fetch_url has returned a response
AfterResponse(f, snap, status_code, content, env) ==
    IF ~status_ok(status_code)
    THEN [status |-> "HTTP_ERROR", fs |-> f, opened |-> {}, raised |-> {}]
    ELSE IF Len(content) = 0
    THEN [status |-> "EMPTY", fs |-> f, opened |-> {}, raised |-> {}]
    ELSE write_file(f, PrimaryPath(snap), Bytes(content), TimestampDir(snap),
                    snap[2], env)

\* The paths whose entry differs between two file systems.
Changed(f, g) ==
    {c \in f.dirs \cup g.dirs : (c \in f.dirs) /= (c \in g.dirs)}
    \cup {c \in DOMAIN f.files \cup DOMAIN g.files :
            \/ (c \in DOMAIN f.files) /= (c \in DOMAIN g.files)
            \/ (c \in DOMAIN f.files /\ c \in DOMAIN g.files /\ f.files[c] /= g.files[c])}

\* What download_file did with a record: its status line, the calls of
\* requests.get, the log lines, the response if there was one (code 0: none),
\* the files opened for writing, the entries of the file system changed and
\* which of the two writes of write_file raised OSError.
NoRecord == [current |-> 0, snap |-> Header, status |-> "NONE", attempts |-> 0,
             lines |-> 0, code |-> 0, content |-> NoBytes,
             opened |-> {}, changed |-> {}, raised |-> {}]
Report(snap, status, tries, lines, opened, changed) ==
    [current |-> current, snap |-> snap, status |-> status, attempts |-> tries,
     lines |-> lines, code |-> 0, content |-> NoBytes,
     opened |-> opened, changed |-> changed, raised |-> {}]

CachePath == Resolve(fs, snapshots_path)

\* ------------------------------------------------------------------ Init
Delays == {1}
SkipLists == {{}, {T1}}
FromDates == {<<>>}
ToDates == {<<>>}
LatestOnly == {FALSE}

\* Nothing loaded yet; no run has fetched the index yet.
NotLoaded == [source |-> "NONE", rows |-> <<>>]
NoFresh == [known |-> FALSE, list |-> <<>>]

\* The first run of the program starts on a destination that does not exist.
Start ==
    /\ fs = StartFs(EmptyFs)
    /\ pc = "start"
    /\ snap_list = <<>>
    /\ current = 0
    /\ retry_count = InitialRetryCount
    /\ exit_code = 0
    /\ attempts = 0
    /\ slept = <<>>
    /\ last = NoRecord
    /\ index_requests = 0
    /\ index_code = 0
    /\ cache_opened = 0
    /\ cache_at_start = FALSE
    /\ saved_now = {}
    /\ saved_before = {}
    /\ status_lines = 0
    /\ loaded = NotLoaded
    /\ no_snapshots = FALSE
    /\ fresh_list = NoFresh

\* --from and --to as typed: a year, a day (lines 38-44); <<>> when not given.
Year2020 == <<"2", "0", "2", "0">>
Day1 == <<"2", "0", "2", "0", "0", "1", "0", "1">>
Day2 == <<"2", "0", "2", "0", "0", "1", "0", "2">>

Init ==
    /\ args \in [RETRIES : 0..MaxRetries, NO_FAIL : BOOLEAN, DRY_RUN : BOOLEAN,
                 DELAY : Delays, skip_timestamps : SkipLists,
                 from_date : FromDates, to_date : ToDates,
                 latest_only : LatestOnly]
    /\ cdx \in RawIndexes
    /\ Start

\* --------------------------------------------------------------- actions
\* sys.exit(status), or the end of main() with status 0
Exit(status) == pc' = "exit" /\ exit_code' = status

\* get_snapshot_list, lines 300-332, with the rows loaded
Loaded(rows) ==
    IF Len(rows) = 0
    THEN Exit(1) /\ no_snapshots' = TRUE /\ UNCHANGED <<snap_list, current>>
    ELSE /\ snap_list' = IndexOf(rows, args)
         /\ current' = 1
         /\ pc' = "download_files"
         /\ UNCHANGED <<exit_code, no_snapshots>>

\* The mutation of Invoke: the counter of the earlier invocation is kept.
InvokeKeepingCount == attempts' = 0 /\ slept' = <<>> /\ UNCHANGED retry_count

\* The call of a wrapper: its counter starts, line 126
Invoke == retry_count' = InitialRetryCount /\ attempts' = 0 /\ slept' = <<>>

\* main() up to the cache: get_snapshot_list, lines 267-282
GetSnapshotList ==
    /\ pc = "start"
    /\ IF isfile(fs, snapshots_path) /\ fs.files[CachePath].kind = "json"
       THEN /\ Loaded(fs.files[CachePath].rows)
            /\ loaded' = [source |-> "CACHE", rows |-> fs.files[CachePath].rows]
            /\ UNCHANGED <<retry_count, attempts, slept>>
       ELSE /\ pc' = "fetch_snapshots"
            /\ Invoke
            /\ UNCHANGED <<snap_list, current, exit_code, loaded, no_snapshots>>
    /\ UNCHANGED <<args, cdx, fs, last, index_requests, index_code, cache_opened,
                   cache_at_start, saved_now, saved_before, status_lines, fresh_list>>

\* fetch_snapshots: requests.get raises, lines 132-162
FetchSnapshotsRaises ==
    /\ pc = "fetch_snapshots"
    /\ LET r == wrapper_except(retry_count, FALSE)
       IN  /\ retry_count' = r.retry_count
           /\ IF r.then = "retry" /\ wrapper_loops(r.retry_count)
              THEN UNCHANGED <<pc, exit_code>>
              \* resp is None, line 284, and sys.exit(1) of line 162
              ELSE Exit(1)
    /\ attempts' = attempts + 1
    /\ slept' = slept \o SleepBefore(retry_count)
    /\ index_requests' = index_requests + 1
    /\ status_lines' = status_lines + wrapper_log(wrapper_except(retry_count, FALSE), FALSE)
    /\ UNCHANGED <<args, cdx, fs, snap_list, current, last, index_code, cache_opened,
                   cache_at_start, saved_now, saved_before, loaded, no_snapshots,
                   fresh_list>>

\* fetch_snapshots returns a response: get_snapshot_list, lines 288-332
FetchSnapshotsReturns ==
    /\ pc = "fetch_snapshots"
    /\ \E status_code \in Statuses, raw_list \in {cdx} :
         /\ index_code' = status_code
         /\ IF ~status_ok(status_code)
            THEN /\ Exit(1)
                 /\ UNCHANGED <<fs, snap_list, current, cache_opened, loaded,
                                no_snapshots, fresh_list>>
            ELSE LET w == OpenWrite(fs, snapshots_path, Json(raw_list), "none")
                 IN  /\ fs' = w.fs
                     /\ cache_opened' = cache_opened + Cardinality(w.opened)
                     \* open() raising ends the process with a traceback
                     /\ IF w.ok
                        THEN /\ Loaded(raw_list)
                             /\ loaded' = [source |-> "FETCH", rows |-> raw_list]
                             /\ fresh_list' = [known |-> TRUE, list |-> snap_list']
                        ELSE /\ Exit(1)
                             /\ UNCHANGED <<snap_list, current, loaded,
                                            no_snapshots, fresh_list>>
    /\ attempts' = attempts + 1
    /\ slept' = slept \o SleepBefore(retry_count)
    /\ index_requests' = index_requests + 1
    /\ UNCHANGED <<args, cdx, retry_count, last, cache_at_start, saved_now,
                   saved_before, status_lines>>

\* download_files: the next record; download_file, lines 435-463
DownloadFile ==
    /\ pc = "download_files"
    /\ current <= Len(snap_list)
    /\ LET snap == snap_list[current]
           why == SkipReason(fs, snap)
       IN  IF why = "FETCH"
           THEN /\ pc' = "fetch_url"
                /\ Invoke
                /\ status_lines' = 0
                /\ UNCHANGED <<current, last>>
           \* one log_status, lines 440, 445, 451 or 455
           ELSE /\ last' = Report(snap, why, 0, 1, {}, {})
                /\ status_lines' = 1
                /\ current' = current + 1
                /\ UNCHANGED <<pc, retry_count, attempts, slept>>
    /\ UNCHANGED <<args, cdx, fs, snap_list, exit_code, index_requests, index_code,
                   cache_opened, cache_at_start, saved_now, saved_before, loaded,
                   no_snapshots, fresh_list>>

\* fetch_url: requests.get raises, lines 132-158, and download_file, 465-467
FetchUrlRaises ==
    /\ pc = "fetch_url"
    /\ LET r == wrapper_except(retry_count, TRUE)
           snap == snap_list[current]
           tries == attempts + 1
           logged == status_lines + wrapper_log(r, TRUE)
       IN  /\ retry_count' = r.retry_count
           /\ status_lines' = logged
           /\ IF r.then = "retry" /\ wrapper_loops(r.retry_count)
              THEN UNCHANGED <<pc, exit_code, current, last>>
              ELSE IF r.then = "exit"
              THEN /\ Exit(1)
                   /\ last' = Report(snap, "ABORTED", tries, logged, {}, {})
                   /\ UNCHANGED current
              ELSE /\ pc' = "download_files"
                   /\ last' = Report(snap, "NO_RESPONSE", tries, logged, {}, {})
                   /\ current' = current + 1
                   /\ UNCHANGED exit_code
    /\ attempts' = attempts + 1
    /\ slept' = slept \o SleepBefore(retry_count)
    /\ UNCHANGED <<args, cdx, fs, snap_list, index_requests, index_code, cache_opened,
                   cache_at_start, saved_now, saved_before, loaded, no_snapshots,
                   fresh_list>>

\* fetch_url returns a response: download_file, lines 469-477
FetchUrlReturns ==
    /\ pc = "fetch_url"
    /\ \E status_code \in Statuses, content \in Bodies(snap_list[current]) :
       \E env \in IF status_code = HTTP_OK /\ content /= NoBytes
                  THEN Environments(Len(Names(PathDirname(PrimaryPath(snap_list[current])))))
                  ELSE {NoFault} :
         LET snap == snap_list[current]
             r == AfterResponse(fs, snap, status_code, content, env)
             tries == attempts + 1
         IN  /\ fs' = r.fs
             \* one log_status: line 471, 475 or one of write_file's
             /\ last' = [Report(snap, r.status, tries, status_lines + 1, r.opened,
                                 Changed(fs, r.fs))
                            EXCEPT !.code = status_code, !.content = content,
                                   !.raised = r.raised]
             /\ cache_opened' = cache_opened + Cardinality(r.opened \cap {CachePath})
             /\ saved_now' = IF r.status \in {"OK", "OK_HASHED"}
                             THEN saved_now \cup {snap} ELSE saved_now
    /\ pc' = "download_files"
    /\ current' = current + 1
    /\ attempts' = attempts + 1
    /\ slept' = slept \o SleepBefore(retry_count)
    /\ status_lines' = status_lines + 1
    /\ UNCHANGED <<args, cdx, snap_list, retry_count, exit_code, index_requests,
                   index_code, cache_at_start, saved_before, loaded, no_snapshots,
                   fresh_list>>

\* main() returns once download_files has gone through the list
MainReturns ==
    /\ pc = "download_files"
    /\ current > Len(snap_list)
    /\ Exit(0)
    /\ UNCHANGED <<args, cdx, fs, snap_list, current, retry_count, attempts, slept,
                   last, index_requests, index_code, cache_opened, cache_at_start,
                   saved_now, saved_before, status_lines, loaded, no_snapshots,
                   fresh_list>>

\* The program is run again with the same options on the same destination
\* (lines 76-93: the destination directory is there, the log file is new).
RunAgain ==
    /\ pc = "exit"
    /\ pc' = "start"
    /\ fs' = StartFs(fs)
    /\ snap_list' = <<>>
    /\ current' = 0
    /\ retry_count' = InitialRetryCount
    /\ exit_code' = 0
    /\ attempts' = 0
    /\ slept' = <<>>
    /\ last' = NoRecord
    /\ index_requests' = 0
    /\ index_code' = 0
    /\ cache_opened' = 0
    /\ cache_at_start' = isfile(fs, snapshots_path)
    /\ saved_now' = {}
    /\ saved_before' = saved_before \cup saved_now
    /\ status_lines' = 0
    /\ loaded' = NotLoaded
    /\ no_snapshots' = FALSE
    /\ UNCHANGED <<args, cdx, fresh_list>>

Next ==
    \/ GetSnapshotList
    \/ FetchSnapshotsRaises
    \/ FetchSnapshotsReturns
    \/ DownloadFile
    \/ FetchUrlRaises
    \/ FetchUrlReturns
    \/ MainReturns
    \/ RunAgain

Spec == Init /\ [][Next]_vars

\* --------------------------------------------------- the index load alone
\* Dry runs (-n) over every index of IndexInputs, with and without --from,
\* --to and --latest-only: get_snapshot_list and the walk of download_files.
IndexInit ==
    /\ args \in [RETRIES : 0..MaxRetries, NO_FAIL : {FALSE}, DRY_RUN : {TRUE},
                 DELAY : Delays, skip_timestamps : {{}},
                 from_date : {<<>>, Year2020, Day2}, to_date : {<<>>, Day1, Day2},
                 latest_only : BOOLEAN]
    /\ cdx \in IndexInputs
    /\ Start

IndexNext ==
    \/ GetSnapshotList
    \/ FetchSnapshotsRaises
    \/ FetchSnapshotsReturns
    \/ DownloadFile
    \/ MainReturns
    \/ RunAgain

IndexSpec == IndexInit /\ [][IndexNext]_vars

\* ------------------------------------------------ the retry wrapper at length
\* Real runs over short indexes with --retries up to MaxRetryOption and
\* --delay 0 or 2, with and without --no-fail; the captures of T2 are skipped.
RetryInputs ==
    {<<Header, <<T1, UrlA>>>>, <<Header, <<T2, UrlA>>, <<T1, UrlAB>>>>}

RetryInit ==
    /\ args \in [RETRIES : 0..MaxRetryOption, NO_FAIL : BOOLEAN, DRY_RUN : {FALSE},
                 DELAY : {0, 2}, skip_timestamps : {{T2}},
                 from_date : FromDates, to_date : ToDates,
                 latest_only : LatestOnly]
    /\ cdx \in RetryInputs
    /\ Start

RetrySpec == RetryInit /\ [][Next]_vars

\* ------------------------------------------------------ the path rules at work
\* Real runs, --no-fail and no retry, over the indexes of PathInputs.
PathInit ==
    /\ args \in [RETRIES : {0}, NO_FAIL : {TRUE}, DRY_RUN : {FALSE},
                 DELAY : Delays, skip_timestamps : {{}},
                 from_date : FromDates, to_date : ToDates,
                 latest_only : LatestOnly]
    /\ cdx \in PathInputs
    /\ Start

PathSpec == PathInit /\ [][Next]_vars

\* ---------------------------------------------------------------- claims
\* A wrapper invocation begins: the process enters fetch_snapshots or fetch_url.
Invoked == pc' \in {"fetch_snapshots", "fetch_url"} /\ pc' /= pc
\* A wrapper invocation ends with func having raised: every attempt failed.
Exhausted == (FetchSnapshotsRaises \/ FetchUrlRaises) /\ pc' /= pc

\* C1: in every invocation of a retry-wrapped fetch func is attempted at most
\* RETRIES + 1 times, and exactly RETRIES + 1 times when every attempt fails;
\* the counter starts at zero in each invocation, whatever came before.
C1_RetryBudget ==
    /\ [](attempts <= RETRIES + 1)
    /\ [][Exhausted => attempts' = RETRIES + 1]_vars
    /\ [][Invoked => retry_count' = 0 /\ attempts' = 0]_vars

\* The second record's fetch fails on every attempt, after the invocations
\* for the index and for the first record.
C1_Witness ==
    /\ RETRIES = MaxRetries
    /\ last.current = 2
    /\ last.status \in {"NO_RESPONSE", "ABORTED"}
    /\ last.attempts = RETRIES + 1
    /\ index_requests > 1

\* C2: when fetch_url fails on every attempt, then without NO_FAIL the
\* process exits with a non-zero status and no later record is fetched or
\* written; with NO_FAIL nothing is written for the record and every later
\* record is still processed (the run ends only past the last record).
C2_ContentFetchExhausted ==
    /\ [][FetchUrlRaises /\ pc' /= pc =>
            /\ fs' = fs
            /\ last'.changed = {} /\ last'.opened = {}
            /\ IF NO_FAIL
               THEN /\ pc' = "download_files"
                    /\ current' = current + 1
                    /\ last'.status = "NO_RESPONSE"
               ELSE /\ pc' = "exit"
                    /\ exit_code' /= 0
                    /\ current' = current]_vars
    /\ [][pc = "exit" => RunAgain]_vars
    /\ [](NO_FAIL /\ pc = "exit" /\ current > 0 =>
            exit_code = 0 /\ current = Len(snap_list) + 1)

\* With NO_FAIL the first of two records got no response and the second is next.
C2_Witness ==
    /\ NO_FAIL
    /\ Len(snap_list) = 2
    /\ last.current = 1
    /\ last.status = "NO_RESPONSE"
    /\ pc = "fetch_url"
    /\ current = 2

\* The index fetch of this run is over and gave no response with status 200.
IndexFailed ==
    index_requests > 0 /\ pc /= "fetch_snapshots" /\ index_code /= HTTP_OK

\* C3: a failed index fetch is fatal with or without NO_FAIL: when the index
\* request fails on all attempts or completes with a status other than 200,
\* the process exits with a non-zero status, snapshots.json is not written
\* and no record is processed.
C3_IndexFetchFatal ==
    /\ [](IndexFailed =>
            /\ pc = "exit"
            /\ exit_code /= 0
            /\ cache_opened = 0
            /\ current = 0
            /\ last = NoRecord
            /\ saved_now = {})
    /\ [][pc = "fetch_snapshots" /\ pc' /= pc /\ index_code' /= HTTP_OK =>
            fs' = fs /\ pc' = "exit"]_vars

\* With NO_FAIL the index request failed on all RETRIES + 1 attempts.
C3_Witness ==
    /\ NO_FAIL
    /\ RETRIES = MaxRetries
    /\ IndexFailed
    /\ index_code = 0
    /\ index_requests = RETRIES + 1
    /\ ~isfile(fs, snapshots_path)

\* The next record of download_files is one the skip rules name.
MustSkip(snap) ==
    \/ snap[1] \in skip_timestamps
    \/ isfile(fs, PrimaryPath(snap))
    \/ isfile(fs, HashedPath(snap))
    \/ DRY_RUN

\* C4: a record is skipped, with no content request and no file created or
\* modified, whenever its timestamp is in the skip-list, or a regular file
\* is at its primary path, or one is at its hashed path under the timestamp
\* directory, or DRY_RUN is set.
C4_SkipRules ==
    [][pc = "download_files" /\ current <= Len(snap_list)
         /\ MustSkip(snap_list[current]) =>
            /\ fs' = fs
            /\ pc' = "download_files"
            /\ attempts' = attempts
            /\ current' = current + 1
            /\ last'.snap = snap_list[current]
            /\ last'.status \in Skips
            /\ last'.attempts = 0]_vars

\* Without DRY_RUN and skip-list a record was skipped for the file at its
\* primary path.
C4_Witness ==
    /\ ~DRY_RUN
    /\ skip_timestamps = {}
    /\ last.status = "SKIP_ON_DISK"
    /\ isfile(fs, PrimaryPath(last.snap))

\* C5: a record whose content an earlier run wrote, at its primary path or
\* at its hashed path, is skipped in a later run over the same index,
\* destination and options: no content request is issued for it and no file
\* is written.
C5_Resumable ==
    /\ (pc = "fetch_url" => snap_list[current] \notin saved_before)
    /\ (last.status /= "NONE" /\ last.snap \in saved_before =>
            /\ last.status \in Skips
            /\ last.attempts = 0
            /\ last.opened = {}
            /\ last.changed = {})

\* A later run skips a record an earlier run saved under its hashed name.
C5_Witness ==
    /\ last.snap \in saved_before
    /\ last.status = "SKIP_HASHED_ON_DISK"
    /\ ~isfile(fs, PrimaryPath(last.snap))

\* fetch_url returned a response for the last record
Responded == last.code /= 0
\* ... with a status code other than 200, or with 200 and an empty body
Rejected == Responded /\ (last.code /= HTTP_OK \/ last.content = NoBytes)
\* The run goes on after the last record: the next record, or the end of main().
RunContinues ==
    /\ current = last.current + 1
    /\ pc = "exit" => exit_code = 0 /\ current = Len(snap_list) + 1

\* C6 as stated: a record whose fetch completes with a response took exactly
\* one request; a rejected response writes nothing and the run continues.
C6_ExactlyOneRequest ==
    /\ (Responded => last.attempts = 1)
    /\ (Rejected => last.opened = {} /\ last.changed = {} /\ RunContinues)

\* C6, amended: a fetch that completes with a response is never retried (the
\* requests that raised before it are the only other ones: at most RETRIES);
\* a rejected response writes nothing, the run continues with the next
\* record and ends with exit code 0.
C6_NoRetryAfterResponse ==
    /\ [][pc = "fetch_url" /\ last'.current = current /\ last'.code /= 0 =>
            /\ pc' = "download_files"
            /\ current' = current + 1
            /\ last'.attempts = attempts + 1
            /\ last'.attempts <= RETRIES + 1]_vars
    /\ [](Rejected => last.opened = {} /\ last.changed = {} /\ RunContinues)

\* The last record of the run got an empty body on its last allowed attempt;
\* the run has ended with exit code 0.
C6_Witness ==
    /\ last.code = HTTP_OK
    /\ last.content = NoBytes
    /\ last.attempts = MaxRetries + 1
    /\ pc = "exit"
    /\ exit_code = 0

\* fetch_url returned status 200 and a body that is not empty for the last record
Fetched == last.code = HTTP_OK /\ last.content /= NoBytes
\* The file at path string p holds the bytes fetched for the last record.
Holds(p) == isfile(fs, p) /\ fs.files[Resolve(fs, p)] = Bytes(last.content)
PrimaryHolds == Holds(PrimaryPath(last.snap))
HashedHolds == Holds(HashedPath(last.snap))
BothRaised == last.raised = {"primary", "hashed"}
\* The directory part of the last record's primary path is a regular file.
DirnameIsFile == isfile(fs, PathDirname(PrimaryPath(last.snap)))

\* C7 as stated: the bytes of every record fetched with status 200 and a
\* body that is not empty are at the primary or at the hashed path; the
\* record fails only when both writes failed.
C7_AlwaysPersisted ==
    Fetched =>
        IF last.status \in {"OK", "OK_HASHED"} THEN PrimaryHolds \/ HashedHolds
        ELSE BothRaised

\* C7, amended: the same for every such record whose target directory is not
\* a regular file (the collision of C8, where no write is attempted).
C7_PersistedUnlessCollision ==
    Fetched /\ ~DirnameIsFile =>
        \/ last.status = "OK" /\ PrimaryHolds /\ last.raised = {}
        \/ last.status = "OK_HASHED" /\ HashedHolds /\ last.raised = {"primary"}
        \/ last.status = "FAILED" /\ BothRaised /\ ~PrimaryHolds /\ ~HashedHolds

\* Both writes failed, the primary one after it had opened the file.
C7_Witness ==
    /\ Fetched
    /\ ~DirnameIsFile
    /\ last.status = "FAILED"
    /\ BothRaised
    /\ last.opened /= {}

\* C8: when the directory part of a record's target path is a regular file,
\* write_file changes nothing in the file system (no file written, no
\* directory created or removed), opens no file, raises nothing, and the run
\* continues with the next record.
C8_Collision ==
    [][/\ pc = "fetch_url"
       /\ isfile(fs, PathDirname(PrimaryPath(snap_list[current])))
       /\ last'.current = current
       /\ last'.code = HTTP_OK
       /\ last'.content /= NoBytes
       => /\ fs' = fs
          /\ last'.opened = {}
          /\ last'.changed = {}
          /\ last'.status = "COLLISION"
          /\ pc' = "download_files"
          /\ current' = current + 1
          /\ exit_code' = exit_code]_vars

\* A record was fetched and its target directory is the file of another record.
C8_Witness ==
    /\ Fetched
    /\ DirnameIsFile
    /\ last.status = "COLLISION"
    /\ current = last.current + 1

\* The extension of each URL of the model, and the file that C9 names:
\* <dest>/<timestamp>/<sha1(original_url)><extension>, as a canonical path.
ExpectedExt(original_url) ==
    IF original_url = UrlUp THEN <<DOT, "json">> ELSE <<DOT, "html">>
FallbackFile(snap) == <<DST_DIR, snap[1], <<Sha1(snap[2])>> \o ExpectedExt(snap[2])>>

\* C9: when the primary write fails with an OSError and the fallback write
\* succeeds, the file sha1(original_url) + extension (.html if none) directly
\* under <dest>/<timestamp>/ holds exactly the fetched bytes and the run goes
\* on; when the fallback write fails too, only this record fails and the
\* next record is still processed.
C9_HashFallback ==
    /\ (Fetched /\ last.raised = {"primary"} =>
            /\ last.status = "OK_HASHED"
            /\ IsFileAt(fs, FallbackFile(last.snap))
            /\ fs.files[FallbackFile(last.snap)] = Bytes(last.content)
            /\ RunContinues)
    /\ (Fetched /\ BothRaised => last.status = "FAILED" /\ RunContinues)

\* The fallback file of a URL with an extension of its own was written.
C9_Witness ==
    /\ Fetched
    /\ last.raised = {"primary"}
    /\ last.snap[2] = UrlUp
    /\ IsFileAt(fs, FallbackFile(last.snap))

\* C10 as stated: with snapshots.json there at the start of the run, no
\* index request is issued and the file is not written; the file is written
\* at most once in a run, and only when it was absent.
C10_CacheWrittenOnce ==
    /\ (cache_at_start => index_requests = 0 /\ cache_opened = 0)
    /\ cache_opened <= 1
    /\ (cache_opened > 0 => ~cache_at_start)

\* The run took its index rows from snapshots.json.
FromCache == loaded.source = "CACHE"

\* C11: a run that loads the index from snapshots.json finds there the raw
\* index an earlier run fetched and dumped, header row included, and, with
\* the same --from, --to and --latest-only, ends up with exactly the ordered
\* record list that the fetching run ended up with.
C11_CacheEquivalence ==
    FromCache =>
        /\ fresh_list.known
        /\ loaded.rows = cdx
        /\ (loaded.rows /= <<>> => Head(loaded.rows) = Header)
        /\ snap_list = fresh_list.list

\* A cached run under a date bound and --latest-only that still has two
\* records to walk through.
C11_Witness ==
    /\ FromCache
    /\ args.latest_only
    /\ args.from_date /= <<>>
    /\ Len(snap_list) >= 2
    /\ Len(loaded.rows) = 1 + MaxIndexRows

\* The index rows were loaded and nothing is left once the header is dropped.
RemainingEmpty ==
    /\ loaded.source /= "NONE"
    /\ (loaded.rows = <<>> \/ Tail(loaded.rows) = <<>>)

\* C12 as stated: when no record is left after the header row is dropped,
\* the run ends with the "no snapshots found" notice and exit code 0, and no
\* record was processed.
C12_NoSnapshotsEndsQuietly ==
    RemainingEmpty /\ pc = "exit" =>
        /\ no_snapshots
        /\ exit_code = 0
        /\ last = NoRecord

RetriesMade == IF attempts = 0 THEN 0 ELSE attempts - 1

\* C14: within one invocation of a wrapped function nothing is slept
\* before the first call, and the sleep right before the k-th retry is
\* DELAY * 2 * k seconds, for k = 1..RETRIES; with --delay 0 nothing is
\* ever slept.
C14_LinearBackoff ==
    /\ RetriesMade <= RETRIES
    /\ slept = IF DELAY = 0 THEN <<>>
               ELSE [k \in 1..RetriesMade |-> DELAY * 2 * k]

\* All the retries --retries allows were made, with --delay 2.
C14_Witness ==
    /\ DELAY = 2
    /\ RETRIES = MaxRetryOption
    /\ RetriesMade = RETRIES
    /\ Len(slept) = RETRIES

\* C15 as stated: two records of one timestamp with different original URLs
\* never get the same primary path, and a record is skipped as already on
\* disk only when the file there was saved for that very record.
C15_InjectivePaths ==
    /\ \A i, j \in 1..Len(snap_list) :
            snap_list[i][1] = snap_list[j][1] /\ snap_list[i][2] /= snap_list[j][2]
                => PrimaryPath(snap_list[i]) /= PrimaryPath(snap_list[j])
    /\ (last.status = "SKIP_ON_DISK" => last.snap \in saved_now \cup saved_before)

\* The URL has no path, or its path ends in "/".
DirectoryLike(url) == url.path = <<>> \/ url.path[Len(url.path)] = SEP

\* What follows the last separator of a path string.
FinalSegment(p) == SubSeq(p, Rfind(p, SEP) + 1, Len(p))

\* C16 as stated: the path derived for a processed record ends in the
\* segment index.html exactly when the record's URL has no path or a path
\* ending in "/", whether or not the URL has a query string (no URL of the
\* indexes names a file index.html itself).
C16_IndexHtml ==
    last /= NoRecord =>
        (DirectoryLike(last.snap[2])
            <=> FinalSegment(get_file_path(last.snap[2])) = <<"index", DOT, "html">>)

\* The index rows were loaded and the run went on to the records.
Listed == loaded.source /= "NONE" /\ loaded.rows /= <<>>

\* The records of the loaded rows that lie within --from and --to, in the
\* order of the rows.
InBounds ==
    SelectSeq(Tail(loaded.rows),
              LAMBDA snap : InDateRange(snap, args.from_date, args.to_date))

Range(seq) == {seq[i] : i \in 1..Len(seq)}

\* C17: with --latest-only the list of the run holds at most one record per
\* original URL; that record is one of the input records of the URL and no
\* input record of the URL has a greater timestamp; every URL of the input
\* has its record; and get_latest_snapshots applied to the list gives the
\* list again.
C17_LatestOnly ==
    Listed /\ args.latest_only =>
        /\ \A i, j \in 1..Len(snap_list) :
                snap_list[i][2] = snap_list[j][2] => i = j
        /\ \A i \in 1..Len(snap_list) :
                /\ snap_list[i] \in Range(InBounds)
                /\ \A r \in Range(InBounds) :
                       r[2] = snap_list[i][2] => StrLeq(r[1], snap_list[i][1])
        /\ \A r \in Range(InBounds) : \E i \in 1..Len(snap_list) : snap_list[i][2] = r[2]
        /\ get_latest_snapshots(snap_list) = snap_list

\* Three captures listed latest first, two of them of one URL, reduced to
\* two records.
C17_Witness ==
    /\ Listed
    /\ args.latest_only
    /\ Len(InBounds) = 3
    /\ InBounds[1][1] = T2
    /\ InBounds[3] = <<T1, UrlA>>
    /\ Len(snap_list) = 2

\* A bound as typed, filled on the right with "0" up to 14 characters.
Padded(bound) == bound \o [i \in 1..(TsWidth - Len(bound)) |-> "0"]

\* The timestamp is within the bounds supplied; a bound not supplied sets
\* no limit.
Within(timestamp) ==
    /\ (args.from_date /= <<>> => StrLeq(Padded(args.from_date), timestamp))
    /\ (args.to_date /= <<>> => StrLeq(timestamp, Padded(args.to_date)))

\* How many times x occurs in seq.
Count(seq, x) == Cardinality({i \in 1..Len(seq) : seq[i] = x})

\* C18: every record of the list of the run has a timestamp within the
\* padded bounds, compared as strings; and every record of the raw index
\* that is within them is kept: without --latest-only it is in the list as
\* many times as in the raw index, and with --latest-only its URL is in the
\* list with a timestamp that is not smaller.
C18_DateRange ==
    Listed =>
        /\ \A i \in 1..Len(snap_list) : Within(snap_list[i][1])
        /\ \A r \in Range(Tail(loaded.rows)) :
               Within(r[1]) =>
                   IF args.latest_only
                   THEN \E i \in 1..Len(snap_list) :
                            snap_list[i][2] = r[2] /\ StrLeq(r[1], snap_list[i][1])
                   ELSE Count(snap_list, r) = Count(Tail(loaded.rows), r)

\* --from the second day and --to the second day, on an index with captures
\* of the first day, its noon and the second day: one record is kept.
C18_Witness ==
    /\ Listed
    /\ args.from_date = Day2
    /\ args.to_date = Day2
    /\ ~args.latest_only
    /\ {r[1] : r \in Range(Tail(loaded.rows))} = {T1, T1Noon, T2}
    /\ Len(snap_list) = 1

\* C19: the list get_snapshot_list returns is in non-decreasing order of
\* timestamp, whatever the order of the raw index and whatever --from, --to
\* and --latest-only; and download_files takes the records in the order of
\* the list: the record last processed is the one at its position, and the
\* next one to process is the one after it, unless the run was aborted there.
C19_AscendingOrder ==
    /\ \A i, j \in 1..Len(snap_list) :
           i < j => StrLeq(snap_list[i][1], snap_list[j][1])
    /\ (last /= NoRecord =>
            /\ last.current \in 1..Len(snap_list)
            /\ last.snap = snap_list[last.current]
            /\ (current = last.current + 1 \/ last.status = "ABORTED"))

\* An index listed latest first whose three records have all been walked
\* through.
C19_Witness ==
    /\ Listed
    /\ Len(loaded.rows) = 4
    /\ loaded.rows[2][1] = T2
    /\ loaded.rows[3][1] = T1Noon
    /\ loaded.rows[4][1] = T1
    /\ Len(snap_list) = 3
    /\ last.current = 3

\* The regular files of f that lie under a timestamp directory of the
\* destination.
SavedContent(f) ==
    {c \in DOMAIN f.files :
        \E t \in Timestamps : IsPrefix(Names(PathJoin(DST_DIR, t)), c) /\ Len(c) > 2}

\* C20 as stated: a regular file under a timestamp directory is never
\* deleted and never has its bytes changed by anything the program does
\* later, in this run or in a later one.
C20_SavedContentKept ==
    [][\A c \in SavedContent(fs) : IsFileAt(fs', c) /\ fs'.files[c] = fs.files[c]]_vars

\* C21 as stated: every file the processing of a record opened for writing
\* and every file or directory it created, changed or removed is the
\* record's directory <dest>/<timestamp> or lies inside it.
C21_Containment ==
    \A c \in last.opened \cup last.changed :
        IsPrefix(Names(TimestampDir(last.snap)), c)

====
